---- MODULE Spec2Model ----
(***************************************************************************)
(* A model of nightly_downsample/data_sample_mscoco.py: the MSCOCODataset  *)
(* class (construction, __getitem__ with its resampling loop, the joins    *)
(* with the instance and caption annotation indexes) and the bootstrap     *)
(* load_data with data_subsample.                                          *)
(*                                                                         *)
(* Two state machines share the module:                                    *)
(*   Spec      one MSCOCODataset: constructed, then accessed repeatedly    *)
(*   FairSpec  Spec plus fairness of the random redraw                     *)
(*   LoadSpec  consecutive load_data calls over one root directory         *)
(***************************************************************************)
EXTENDS Integers, Sequences, FiniteSets, TLC

\* ------------------------------------------------------------------ bounds
\* images in the directory a dataset is built over
MaxImages == 2
\* the fetch counter of one access saturates here (a history counter only)
MaxFetches == 2
\* images in the train archive (the eval archive holds one less)
ArchiveImages == 2
\* the largest sample_num passed to load_data
MaxSampleNum == 3
\* consecutive load_data calls
MaxCalls == 2

\* ------------------------------------------------------- values of the model
DigitChars == <<"0", "1", "2", "3", "4", "5", "6", "7", "8", "9">>

Digits == {DigitChars[k] : k \in 1..Len(DigitChars)}

\* the value of a decimal digit
DigitVal(c) == (CHOOSE k \in 1..Len(DigitChars) : DigitChars[k] = c) - 1

\* file name stems an image directory may hold ("0x" is not an integer)
Stems == {<<"0", "1">>, <<"0", "2">>, <<"0", "x">>}

\* int(stem) succeeds
IsInt(stem) == Len(stem) > 0 /\ \A k \in 1..Len(stem) : stem[k] \in Digits

RECURSIVE ParseInt(_)
\* int(stem) for a stem of decimal digits (leading zeros allowed)
ParseInt(stem) ==
    IF Len(stem) = 0 THEN 0
    ELSE 10 * ParseInt(SubSeq(stem, 1, Len(stem) - 1)) + DigitVal(stem[Len(stem)])

\* an image path <dir>/<stem>.jpg
Path(dir, stem) == [dir |-> dir, stem |-> stem, ext |-> ".jpg"]

\* os.path.basename
Basename(p) == [stem |-> p.stem, ext |-> p.ext]

\* os.path.splitext(b)[0]
SplitextRoot(b) == b.stem

Range(s) == {s[k] : k \in 1..Len(s)}

RECURSIVE SeqsNoDup(_, _)
\* the sequences of distinct elements of S of length at most n
SeqsNoDup(S, n) ==
    IF n = 0 THEN {<< >>}
    ELSE LET shorter == SeqsNoDup(S, n - 1)
         IN shorter \cup UNION {{Append(s, x) : x \in S \ Range(s)} :
                                 s \in {t \in shorter : Len(t) = n - 1}}

Min(a, b) == IF a < b THEN a ELSE b

\* the element of a one-element set: {e(x) : x \in {v}} computes v once
The(S) == CHOOSE x \in S : TRUE

\* ------------------------------------------------- the annotation sources
\* image ids the annotation files know
AnnImageIds == {1, 2}

\* one instance annotation of image k
InstAnn(k, n, crowd) ==
    [id |-> 10 * k + n, image_id |-> k, bbox |-> <<k, n, 3, 4>>,
     category_id |-> 5 + n, iscrowd |-> crowd]

\* one caption annotation of image k
CapAnn(k, n) == [id |-> 10 * k + n, image_id |-> k, caption |-> [text |-> 10 * k + n]]

\* what an instance annotation file may hold for image k, in source order
InstChoices(k) ==
    {<< >>,
     <<InstAnn(k, 1, 1)>>,
     <<InstAnn(k, 1, 0), InstAnn(k, 2, 1), InstAnn(k, 3, 0)>>}

\* what a caption annotation file may hold for image k, in source order
CapChoices(k) == {<< >>, <<CapAnn(k, 1), CapAnn(k, 2)>>}

InstFiles == {f \in [AnnImageIds -> UNION {InstChoices(k) : k \in AnnImageIds}] :
                 \A k \in AnnImageIds : f[k] \in InstChoices(k)}

CapFiles == {f \in [AnnImageIds -> UNION {CapChoices(k) : k \in AnnImageIds}] :
                \A k \in AnnImageIds : f[k] \in CapChoices(k)}

\* COCO(annotation_file): the index of an annotation file
COCO(file) == [isNone |-> FALSE, imgToAnns |-> file]

\* None, for self.captions when captions are not included
None == [isNone |-> TRUE, imgToAnns |-> [k \in AnnImageIds |-> << >>]]

\* the crowd flag not compared
CrowdMatches_Any(a, iscrowd) == TRUE

\* ann['iscrowd'] == iscrowd, for iscrowd one of None, False, True
CrowdMatches(a, iscrowd) ==
    \/ iscrowd = "False" /\ a.iscrowd = 0
    \/ iscrowd = "True" /\ a.iscrowd = 1

\* COCO.getAnnIds(imgIds=image_id, iscrowd=...): the ids of the image's
\* annotations, in source order, filtered by the crowd flag unless it is None
GetAnnIds(coco, image_id, iscrowd) ==
    LET anns == IF image_id \in DOMAIN coco.imgToAnns
                THEN coco.imgToAnns[image_id] ELSE << >>
        kept == IF iscrowd = "None" THEN anns
                ELSE SelectSeq(anns, LAMBDA a : CrowdMatches(a, iscrowd))
    IN [k \in 1..Len(kept) |-> kept[k].id]

\* COCO.loadAnns(ids): the annotations with these ids, in the order of ids
LoadAnns(coco, ids) ==
    LET all == UNION {Range(coco.imgToAnns[k]) : k \in DOMAIN coco.imgToAnns}
    IN [k \in 1..Len(ids) |-> CHOOSE a \in all : a.id = ids[k]]

\* COCO.annToMask(annotation): the binary mask of one annotation
AnnToMask(annotation) == [maskOf |-> annotation.id]

\* ------------------------------------------------------ the base dataset
\* a file of an image directory: its stem, and whether it lies in a
\* sub-directory (os.walk reaches it, a non-recursive listing does not)
File(stem, sub) == [stem |-> stem, sub |-> sub]

\* the keys a record can carry
Fields == {"image", "image_id", "bbox", "mask", "caption"}

\* a record with no key set; ref is 0 for an object no dataset stores and
\* k for the object stored at position k of the base dataset
NoRec ==
    [keys |-> {}, image |-> Path("", << >>), image_id |-> 0, bbox |-> << >>,
     mask |-> << >>, caption |-> << >>, ref |-> 0]

\* DirDataset(root_dir=image_dir, data_key="image", recursive_search=False):
\* one record {"image": path} per file directly in the directory
DirDataset(dirname, files) ==
    LET top == SelectSeq(files, LAMBDA f : ~f.sub)
    IN [k \in 1..Len(top) |->
           [NoRec EXCEPT !.keys = {"image"}, !.image = Path(dirname, top[k].stem),
                         !.ref = k]]

\* an index of __getitem__: an integer position or a string key
IntIndex(i) == [kind |-> "int", i |-> i, key |-> ""]
StrIndex(key) == [kind |-> "str", i |-> 0, key |-> key]

\* the string keys tried: the data key of the base dataset and an unknown one
StrKeys == {"image", "nokey"}

\* the result of a call: err is "none" or the exception raised, h the heap
\* (the response built so far and the base dataset's stored records)
Ok(h) == [err |-> "none", h |-> h]
Raise(e, h) == [err |-> e, h |-> h]
Heap(resp, data) == [resp |-> resp, data |-> data]

\* DirDataset.__getitem__(index): the stored record itself for a position
\* (KeyError when there is none), the column of a key for a string
BaseGetItem(data, index) ==
    IF index.kind = "str"
    THEN IF index.key = "image"
         THEN Ok(Heap(NoRec, data))
         ELSE Raise("KeyError", Heap(NoRec, data))
    ELSE IF index.i + 1 \in DOMAIN data
         THEN Ok(Heap(data[index.i + 1], data))
         ELSE Raise("KeyError", Heap(NoRec, data))

\* len(self)
DatasetLen(self) == Len(self.data)

\* obj[k] = v on the object h.resp: a stored object changes in the store too
SetItem(h, k, v) ==
    The({Heap(r, IF r.ref = 0 THEN h.data ELSE [h.data EXCEPT ![r.ref] = r]) :
            r \in {[h.resp EXCEPT !.keys = @ \cup {k}, ![k] = v]}})

\* obj[k].append(v)
AppendItem(h, k, v) == SetItem(h, k, Append(h.resp[k], v))

\* deepcopy(response): a new object, stored nowhere
DeepCopy(h) == Heap([h.resp EXCEPT !.ref = 0], h.data)

\* ------------------------------------------------------- MSCOCODataset
\* the object before any successful construction
NoDataset ==
    [data |-> << >>, include_bboxes |-> FALSE, include_masks |-> FALSE,
     instances |-> None, captions |-> None]

\* the assertion dropped
MasksNeedBboxes_Dropped(include_bboxes, include_masks) == TRUE

\* if include_masks: assert include_bboxes -- TRUE when no assertion fails
MasksNeedBboxes(include_bboxes, include_masks) ==
    include_masks => include_bboxes

\* the caption file opened whatever include_captions says
NewDataset_OpensBoth(dirname, files, ann_file, cap_file, include_bboxes, include_masks, include_captions) ==
    IF ~MasksNeedBboxes(include_bboxes, include_masks)
    THEN [err |-> "AssertionError", self |-> NoDataset, opened |-> << >>]
    ELSE [err |-> "none",
          self |-> [data |-> DirDataset(dirname, files),
                    include_bboxes |-> include_bboxes,
                    include_masks |-> include_masks,
                    instances |-> COCO(ann_file),
                    captions |-> COCO(cap_file)],
          opened |-> <<"instances", "captions">>]

\* MSCOCODataset.__init__: err, the object, and the annotation files opened
NewDataset(dirname, files, ann_file, cap_file, include_bboxes, include_masks, include_captions) ==
    IF ~MasksNeedBboxes(include_bboxes, include_masks)
    THEN [err |-> "AssertionError", self |-> NoDataset, opened |-> << >>]
    ELSE [err |-> "none",
          self |-> [data |-> DirDataset(dirname, files),
                    include_bboxes |-> include_bboxes,
                    include_masks |-> include_masks,
                    instances |-> COCO(ann_file),
                    captions |-> IF include_captions THEN COCO(cap_file) ELSE None],
          opened |-> IF include_captions THEN <<"instances", "captions">>
                     ELSE <<"instances">>]

\* tuple(annotation['bbox'] + [annotation['category_id']])
BboxTuple(annotation) == annotation.bbox \o <<annotation.category_id>>

RECURSIVE InstanceLoop_MaskOfFirst(_, _, _, _)
\* the mask of every pass taken from the first annotation
InstanceLoop_MaskOfFirst(h, annotations, k, self) ==
    IF k > Len(annotations) THEN h
    ELSE The({InstanceLoop_MaskOfFirst(h2, annotations, k + 1, self) :
                 h2 \in {IF self.include_masks
                         THEN AppendItem(h1, "mask", AnnToMask(annotations[1]))
                         ELSE h1 :
                            h1 \in {AppendItem(h, "bbox", BboxTuple(annotations[k]))}}})

RECURSIVE InstanceLoop(_, _, _, _)
\* for annotation in annotations: append its bbox and, with masks, its mask
InstanceLoop(h, annotations, k, self) ==
    IF k > Len(annotations) THEN h
    ELSE The({InstanceLoop(h2, annotations, k + 1, self) :
                 h2 \in {IF self.include_masks
                         THEN AppendItem(h1, "mask", AnnToMask(annotations[k]))
                         ELSE h1 :
                            h1 \in {AppendItem(h, "bbox", BboxTuple(annotations[k]))}}})

\* MSCOCODataset._populate_instance_data
PopulateInstanceData(h, image_id, self) ==
    The({IF Len(annotation_ids) > 0
         THEN The({InstanceLoop(h2, annotations, 1, self) :
                      annotations \in {LoadAnns(self.instances, annotation_ids)}})
         ELSE h2 :
            h2 \in {IF self.include_masks THEN SetItem(h1, "mask", << >>) ELSE h1 :
                       h1 \in {SetItem(h, "bbox", << >>)}},
            annotation_ids \in {GetAnnIds(self.instances, image_id, "False")}})

RECURSIVE CaptionLoop(_, _, _)
\* for annotation in annotations: append its caption
CaptionLoop(h, annotations, k) ==
    IF k > Len(annotations) THEN h
    ELSE The({CaptionLoop(h1, annotations, k + 1) :
                 h1 \in {AppendItem(h, "caption", annotations[k].caption)}})

\* MSCOCODataset._populate_caption_data
PopulateCaptionData(h, image_id, self) ==
    The({IF Len(annotation_ids) > 0
         THEN The({CaptionLoop(h1, annotations, 1) :
                      annotations \in {LoadAnns(self.captions, annotation_ids)}})
         ELSE h1 :
            h1 \in {SetItem(h, "caption", << >>)},
            annotation_ids \in {GetAnnIds(self.captions, image_id, "None")}})

\* the response used without a copy
CopyResponse_Aliased(h) == h

\* response = deepcopy(response)
CopyResponse(h) == DeepCopy(h)

\* lines 75-82 of _get_single_item: the joins into the copied record h0
JoinAnnotations(self, h0, image_id) ==
    The({IF ~self.captions.isNone
         THEN PopulateCaptionData(h2, image_id, self)
         ELSE h2 :
            h2 \in {IF self.include_bboxes
                    THEN PopulateInstanceData(h1, image_id, self)
                    ELSE h1 :
                       h1 \in {SetItem(h0, "image_id", image_id)}}})

\* image_id parsed from the path of the first stored image, not from the
\* path of the record fetched
CopyAndJoin_IdOfFirstImage(self, b) ==
    The({IF ~IsInt(SplitextRoot(Basename(h0.resp.image)))
         THEN Raise("ValueError", h0)
         ELSE The({Ok(JoinAnnotations(self, h0, image_id)) :
                      image_id \in {IF IsInt(SplitextRoot(Basename(self.data[1].image)))
                                    THEN ParseInt(SplitextRoot(Basename(self.data[1].image)))
                                    ELSE ParseInt(SplitextRoot(Basename(h0.resp.image)))}}) :
            h0 \in {CopyResponse(b.h)}})

\* a file name that is no integer taken as an image with no annotations
CopyAndJoin_SkipsBadName(self, b) ==
    The({IF ~IsInt(SplitextRoot(Basename(h0.resp.image)))
         THEN Ok(The({IF ~self.captions.isNone THEN SetItem(h2, "caption", << >>) ELSE h2 :
                         h2 \in {IF self.include_masks THEN SetItem(h1, "mask", << >>) ELSE h1 :
                                    h1 \in {IF self.include_bboxes
                                            THEN SetItem(h0, "bbox", << >>) ELSE h0}}}))
         ELSE The({Ok(JoinAnnotations(self, h0, image_id)) :
                      image_id \in {ParseInt(SplitextRoot(Basename(h0.resp.image)))}}) :
            h0 \in {CopyResponse(b.h)}})

\* lines 74-82 of _get_single_item, for the base record in b
CopyAndJoin(self, b) ==
    The({IF ~IsInt(SplitextRoot(Basename(h0.resp.image)))
         THEN Raise("ValueError", h0)
         ELSE The({Ok(JoinAnnotations(self, h0, image_id)) :
                      image_id \in {ParseInt(SplitextRoot(Basename(h0.resp.image)))}}) :
            h0 \in {CopyResponse(b.h)}})

\* MSCOCODataset._get_single_item
GetSingleItem(self, index) ==
    The({IF b.err # "none" \/ index.kind = "str" THEN b ELSE CopyAndJoin(self, b) :
            b \in {BaseGetItem(self.data, index)}})

\* the exception of response[k] when the response has no key k: a column
\* (a list) takes no string subscript, a record lacks the key
SubscriptError(resp) == IF resp.keys = {} THEN "TypeError" ELSE "KeyError"

\* the caption part of the check left out
HasData_NoCaption(has_box, has_mask, has_caption) == has_box /\ has_mask

\* has_data = has_box and has_mask and has_caption
HasData(has_box, has_mask, has_caption) == has_box /\ has_mask /\ has_caption

\* lines 57-65 of __getitem__: err, and has_data when nothing is raised
CheckResponse(self, resp) ==
    LET wants == <<self.include_bboxes, self.include_masks, ~self.captions.isNone>>
        key == <<"bbox", "mask", "caption">>
        missing == \E n \in 1..3 : wants[n] /\ key[n] \notin resp.keys
        has(n) == ~(wants[n] /\ Len(resp[key[n]]) = 0)
    IN IF missing THEN [err |-> SubscriptError(resp), has_data |-> FALSE]
       ELSE [err |-> "none", has_data |-> HasData(has(1), has(2), has(3))]

\* the outcomes of np.random.randint(n): a value of [0, n), or ValueError
\* for n <= 0
RandFail == "ValueError"
RandInt_UpTo(n) == IF n > 0 THEN 0..n ELSE {}
RandInt(n) == IF n > 0 THEN 0..(n - 1) ELSE {}

\* ------------------------------------------------------------ load_data
\* the three resources, in the order of the list files (lines 139-147)
Resources == <<"train", "eval", "annotations">>
ResourceSet == {"train", "eval", "annotations"}
Splits == {"train", "eval"}

\* the directory each resource is extracted to (lines 132-134)
DirName(r) ==
    CASE r = "train" -> "train2017" [] r = "eval" -> "val2017"
      [] OTHER -> "annotations"

\* the file name of image k of an archive
StemOf(k) == <<"0", DigitChars[k + 1]>>

\* the image files an archive extracts, all directly in the directory; the
\* annotation archive holds no image
Archive(r) ==
    CASE r = "train" -> [k \in 1..ArchiveImages |-> File(StemOf(k), FALSE)]
      [] r = "eval" -> [k \in 1..(ArchiveImages - 1) |-> File(StemOf(k), FALSE)]
      [] OTHER -> << >>

\* the walk keeps one file too many
KeepFile_OffByOne(img_count, sample_num) == img_count <= sample_num

\* if img_count < sample_num (line 186)
KeepFile(img_count, sample_num) == img_count < sample_num

RECURSIVE WalkLoop(_, _, _, _, _)
\* the loops of data_subsample over the files in os.walk order (lines
\* 184-189): the files not removed, in order
WalkLoop(files, k, img_count, sample_num, kept) ==
    IF k > Len(files) THEN kept
    ELSE IF KeepFile(img_count, sample_num)
         THEN WalkLoop(files, k + 1, img_count + 1, sample_num,
                       Append(kept, files[k]))
         ELSE WalkLoop(files, k + 1, img_count, sample_num, kept)

\* data_subsample(source_dir, sample_num): the files left in the directory;
\* os.walk of a missing directory yields nothing
DataSubsample(exists, files, sample_num) ==
    IF exists THEN WalkLoop(files, 1, 0, sample_num, << >>) ELSE files

\* the existence check skipped
DirMissing_Always(root, r) == TRUE

\* if not os.path.exists(data_dir) (line 150)
DirMissing(root, r) == ~root.exists[r]

\* the archive fetched although it is on disk
ZipMissing_Always(root, r) == TRUE

\* if not os.path.exists(zip_path) (line 153)
ZipMissing(root, r) == ~root.zip[r]

\* wget.download(download_url, zip_path): the archive file is on disk
Download(root, r) == [root EXCEPT !.zip[r] = TRUE]

\* zip_file.extractall(os.path.dirname(zip_path)): the directory holds the
\* first n files of the archive (all of them when the extraction succeeds)
Extract(root, r, n) ==
    [root EXCEPT !.exists[r] = TRUE, !.files[r] = SubSeq(Archive(r), 1, n)]

\* the root directories a call can find: each split directory missing, or
\* holding the first files of its archive and perhaps one file in a
\* sub-directory; each archive file on disk or not
SplitDirs(r) ==
    {SubSeq(Archive(r), 1, n) \o nested :
        n \in 0..Len(Archive(r)), nested \in {<< >>, <<File(StemOf(1), TRUE)>>}}

Roots ==
    {root \in [exists : [ResourceSet -> BOOLEAN],
               files : [ResourceSet -> SplitDirs("train") \cup SplitDirs("eval")],
               zip : [ResourceSet -> BOOLEAN]] :
        /\ \A r \in Splits : root.files[r] \in SplitDirs(r)
        /\ \A r \in Splits : ~root.exists[r] => root.files[r] = << >>
        /\ root.files["annotations"] = << >>}

\* the flag triples (load_bboxes, load_masks, load_captions) tried: the
\* defaults, everything, and masks without bboxes
FlagChoices == {<<TRUE, FALSE, FALSE>>, <<TRUE, TRUE, TRUE>>, <<FALSE, TRUE, FALSE>>}

NoFs ==
    [exists |-> [r \in ResourceSet |-> FALSE],
     files |-> [r \in ResourceSet |-> << >>],
     zip |-> [r \in ResourceSet |-> FALSE]]

\* no load_data call is running
NoLoad ==
    [pc |-> "idle", sample_num |-> 0, flags |-> <<TRUE, FALSE, FALSE>>, k |-> 1,
     start |-> NoFs, downloaded |-> {}, extracted |-> {},
     deleted |-> [r \in Splits |-> << >>],
     train_ds |-> NoDataset, eval_ds |-> NoDataset, err |-> "none"]

\* the latest finished call: whether it returned, its sample_num, whether
\* the three directories existed when it began and which of them did, how
\* many files it removed, the directories it extracted and the lengths of
\* the datasets it returned
NoPrev ==
    [returned |-> FALSE, sample_num |-> 0, all_existed |-> FALSE, existed |-> {},
     removed |-> 0, extracted |-> {}, train_len |-> 0, eval_len |-> 0]

NoHist == [calls |-> 0, prev |-> NoPrev]

\* the files of before that are not in after, in order
Removed(before, after) == SelectSeq(before, LAMBDA f : f \notin Range(after))

\* ------------------------------------------------------------------ state
VARIABLES
    image_dir,        \* the files of the directory the dataset is built over
    annotation_file,  \* the instance annotation file's content
    caption_file,     \* the caption annotation file's content
    self,             \* the MSCOCODataset object
    opened,           \* the annotation files the constructor opened, in order
    pc,               \* "new", "ctor_error", "idle", "loop", "done", "error"
    arg,              \* the index the caller passed to __getitem__
    index,            \* the local variable index of __getitem__
    response,         \* the local variable response of __getitem__
    result,           \* the value __getitem__ returned
    err,              \* the exception that ended the constructor or the access
    drew,             \* np.random.randint was called during this access
    fetches,          \* calls of _get_single_item during this access (saturating)
    fetched,          \* the index of the latest _get_single_item call
    fs,               \* the root directory: the three resources
    ld,               \* the running load_data call
    hist              \* what earlier load_data calls did

dsVars == <<image_dir, annotation_file, caption_file, self, opened, pc, arg,
            index, response, result, err, drew, fetches, fetched>>
loadVars == <<fs, ld, hist>>
vars == <<image_dir, annotation_file, caption_file, self, opened, pc, arg,
          index, response, result, err, drew, fetches, fetched, fs, ld, hist>>

\* ------------------------------------------- one dataset: Init and actions
\* the file names of a flat image directory
FlatDirs == {[k \in 1..Len(q) |-> File(q[k], FALSE)] : q \in SeqsNoDup(Stems, MaxImages)}

NoCall ==
    /\ arg = IntIndex(0)
    /\ index = IntIndex(0)
    /\ response = NoRec
    /\ result = NoRec
    /\ drew = FALSE
    /\ fetches = 0
    /\ fetched = IntIndex(0)

Init ==
    /\ image_dir \in FlatDirs
    /\ annotation_file \in InstFiles
    /\ caption_file \in CapFiles
    /\ self = NoDataset
    /\ opened = << >>
    /\ pc = "new"
    /\ err = "none"
    /\ NoCall
    /\ fs = NoFs
    /\ ld = NoLoad
    /\ hist = NoHist

\* MSCOCODataset(image_dir, annotation_file, caption_file, flags...)
Construct(include_bboxes, include_masks, include_captions) ==
    /\ pc \in {"new", "ctor_error"}
    /\ LET c == NewDataset("train2017", image_dir, annotation_file, caption_file,
                           include_bboxes, include_masks, include_captions)
       IN /\ self' = c.self
          /\ opened' = c.opened
          /\ err' = c.err
          /\ pc' = IF c.err = "none" THEN "idle" ELSE "ctor_error"
    /\ UNCHANGED <<image_dir, annotation_file, caption_file, arg, index, response,
                   result, drew, fetches, fetched>>
    /\ UNCHANGED loadVars

\* the first fetch made at position 0, whatever the caller's index
Call_FromStart(i) ==
    /\ pc = "idle"
    /\ pc' = "loop"
    /\ arg' = i
    /\ index' = IF i.kind = "int" THEN IntIndex(0) ELSE i
    /\ UNCHANGED <<image_dir, annotation_file, caption_file, self, opened,
                   response, result, err, drew, fetches, fetched>>
    /\ UNCHANGED loadVars

\* dataset[i]: __getitem__ is entered (lines 54-55)
Call(i) ==
    /\ pc = "idle"
    /\ pc' = "loop"
    /\ arg' = i
    /\ index' = i
    /\ UNCHANGED <<image_dir, annotation_file, caption_file, self, opened,
                   response, result, err, drew, fetches, fetched>>
    /\ UNCHANGED loadVars

\* one pass of the while loop of __getitem__ (lines 56-66) and, when
\* has_data, the return (line 67)
Attempt ==
    /\ pc = "loop"
    /\ \E g \in {GetSingleItem(self, index)} :
       \E c \in {CheckResponse(self, g.h.resp)} :
          /\ self' = [self EXCEPT !.data = g.h.data]
          /\ fetches' = Min(fetches + 1, MaxFetches)
          /\ fetched' = index
          /\ IF g.err # "none"
             THEN /\ pc' = "error"
                  /\ err' = g.err
                  /\ UNCHANGED <<index, response, result, drew>>
             ELSE /\ response' = g.h.resp
                  /\ IF c.err # "none"
                     THEN /\ pc' = "error"
                          /\ err' = c.err
                          /\ UNCHANGED <<index, result, drew>>
                     ELSE /\ drew' = TRUE
                          /\ IF RandInt(Len(g.h.data)) = {}
                             THEN /\ pc' = "error"
                                  /\ err' = RandFail
                                  /\ UNCHANGED <<index, result>>
                             ELSE /\ \E j \in RandInt(Len(g.h.data)) :
                                        index' = IntIndex(j)
                                  /\ pc' = IF c.has_data THEN "done" ELSE "loop"
                                  /\ result' = IF c.has_data THEN g.h.resp ELSE result
                                  /\ err' = err
    /\ UNCHANGED <<image_dir, annotation_file, caption_file, opened, arg>>
    /\ UNCHANGED loadVars

\* the caller takes the sample or the exception; the next access may start
Return ==
    /\ pc \in {"done", "error"}
    /\ pc' = "idle"
    /\ err' = "none"
    /\ arg' = IntIndex(0)
    /\ index' = IntIndex(0)
    /\ response' = NoRec
    /\ result' = NoRec
    /\ drew' = FALSE
    /\ fetches' = 0
    /\ fetched' = IntIndex(0)
    /\ UNCHANGED <<image_dir, annotation_file, caption_file, self, opened>>
    /\ UNCHANGED loadVars

\* the indexes a caller passes: every position, one past the end, the keys
Indexes == {IntIndex(i) : i \in 0..MaxImages} \cup {StrIndex(k) : k \in StrKeys}

Next ==
    \/ \E b, m, c \in BOOLEAN : Construct(b, m, c)
    \/ \E i \in Indexes : Call(i)
    \/ Attempt
    \/ Return

Spec == Init /\ [][Next]_vars

\* a pass of the loop that goes on to position j
Redraw(j) == Attempt /\ pc' = "loop" /\ index' = IntIndex(j)

\* the access keeps running, and its redraw is fair
FairSpec ==
    Spec /\ WF_vars(Attempt) /\ \A j \in 0..(MaxImages - 1) : WF_vars(Redraw(j))

\* ------------------------------------------- load_data: Init and actions
\* the annotation files of the annotations archive
FullInstFile == [k \in AnnImageIds |-> <<InstAnn(k, 1, 0), InstAnn(k, 2, 1), InstAnn(k, 3, 0)>>]
FullCapFile == [k \in AnnImageIds |-> <<CapAnn(k, 1), CapAnn(k, 2)>>]

LoadInit ==
    /\ image_dir = << >>
    /\ annotation_file = FullInstFile
    /\ caption_file = FullCapFile
    /\ self = NoDataset
    /\ opened = << >>
    /\ pc = "new"
    /\ err = "none"
    /\ NoCall
    /\ fs \in Roots
    /\ ld = NoLoad
    /\ hist = NoHist

\* the resource the loop of lines 149-159 is at
Current == Resources[ld.k]

\* the loop moves to the next resource, or ends
Advance(l) ==
    IF l.k = Len(Resources) THEN [l EXCEPT !.pc = "construct"]
    ELSE [l EXCEPT !.k = l.k + 1]

\* load_data(root_dir, sample_num, flags) is entered (lines 125-134)
Begin(sample_num, flags) ==
    /\ ld.pc = "idle"
    /\ hist.calls < MaxCalls
    /\ ld' = [NoLoad EXCEPT !.pc = "subsample_train", !.sample_num = sample_num,
                            !.flags = flags, !.start = fs]
    /\ UNCHANGED <<fs, hist>>
    /\ UNCHANGED dsVars

\* data_subsample(train_data, sample_num), then data_subsample(eval_data,
\* sample_num) (lines 136-137)
SubsampleSplit(r, here, next) ==
    /\ ld.pc = here
    /\ \E kept \in {DataSubsample(fs.exists[r], fs.files[r], ld.sample_num)} :
          /\ fs' = [fs EXCEPT !.files[r] = kept]
          /\ ld' = [ld EXCEPT !.pc = next, !.deleted[r] = Removed(fs.files[r], kept)]
    /\ UNCHANGED hist
    /\ UNCHANGED dsVars

\* a pass of the loop of lines 149-159 for a directory that exists
SkipResource ==
    /\ ld.pc = "files"
    /\ ~DirMissing(fs, Current)
    /\ ld' = Advance(ld)
    /\ UNCHANGED <<fs, hist>>
    /\ UNCHANGED dsVars

\* the root after the download step of lines 153-155
AfterDownload(root, r) == IF ZipMissing(root, r) THEN Download(root, r) ELSE root

\* the split directory subsampled once it is extracted
FetchResource_Subsamples ==
    /\ ld.pc = "files"
    /\ DirMissing(fs, Current)
    /\ \E full \in {Extract(AfterDownload(fs, Current), Current, Len(Archive(Current)))} :
       \E kept \in {IF Current \in Splits
                    THEN DataSubsample(TRUE, full.files[Current], ld.sample_num)
                    ELSE full.files[Current]} :
          /\ fs' = [full EXCEPT !.files[Current] = kept]
          /\ ld' = Advance([ld EXCEPT
                      !.downloaded = IF ZipMissing(fs, Current) THEN @ \cup {Current} ELSE @,
                      !.extracted = @ \cup {Current},
                      !.deleted[Current] = Removed(full.files[Current], kept)])
    /\ UNCHANGED hist
    /\ UNCHANGED dsVars

\* a pass of the loop for a missing directory: download unless the archive
\* is on disk, then extract
FetchResource ==
    /\ ld.pc = "files"
    /\ DirMissing(fs, Current)
    /\ fs' = Extract(AfterDownload(fs, Current), Current, Len(Archive(Current)))
    /\ ld' = Advance([ld EXCEPT
                !.downloaded = IF ZipMissing(fs, Current) THEN @ \cup {Current} ELSE @,
                !.extracted = @ \cup {Current}])
    /\ UNCHANGED hist
    /\ UNCHANGED dsVars

\* the exception of wget.download swallowed: the loop goes on
DownloadFails_Swallowed ==
    /\ ld.pc = "files"
    /\ DirMissing(fs, Current)
    /\ ZipMissing(fs, Current)
    /\ ld' = Advance([ld EXCEPT !.err = "DownloadError"])
    /\ UNCHANGED <<fs, hist>>
    /\ UNCHANGED dsVars

\* wget.download raises: nothing is written, load_data ends
DownloadFails ==
    /\ ld.pc = "files"
    /\ DirMissing(fs, Current)
    /\ ZipMissing(fs, Current)
    /\ ld' = [ld EXCEPT !.pc = "aborted", !.err = "DownloadError"]
    /\ UNCHANGED <<fs, hist>>
    /\ UNCHANGED dsVars

\* the extraction raises after n files were written (a corrupt archive):
\* with n = 0 the directory is not created; load_data ends
ExtractFails(n) ==
    /\ ld.pc = "files"
    /\ DirMissing(fs, Current)
    /\ n < Len(Archive(Current)) \/ n = 0
    /\ fs' = IF n = 0 THEN AfterDownload(fs, Current)
             ELSE Extract(AfterDownload(fs, Current), Current, n)
    /\ ld' = [ld EXCEPT
                !.pc = "aborted", !.err = "BadZipFile",
                !.downloaded = IF ZipMissing(fs, Current) THEN @ \cup {Current} ELSE @]
    /\ UNCHANGED hist
    /\ UNCHANGED dsVars

\* the two MSCOCODataset constructions and the return (lines 161-178)
ConstructDatasets ==
    /\ ld.pc = "construct"
    /\ \E t \in {NewDataset(DirName("train"), fs.files["train"], annotation_file,
                            caption_file, ld.flags[1], ld.flags[2], ld.flags[3])},
          e \in {NewDataset(DirName("eval"), fs.files["eval"], annotation_file,
                            caption_file, ld.flags[1], ld.flags[2], ld.flags[3])} :
          ld' = IF t.err # "none" THEN [ld EXCEPT !.pc = "aborted", !.err = t.err]
                ELSE IF e.err # "none"
                THEN [ld EXCEPT !.pc = "aborted", !.err = e.err, !.train_ds = t.self]
                ELSE [ld EXCEPT !.pc = "returned", !.train_ds = t.self,
                                !.eval_ds = e.self]
    /\ UNCHANGED <<fs, hist>>
    /\ UNCHANGED dsVars

\* the caller has the datasets or the exception; the next call may start
Finish ==
    /\ ld.pc \in {"returned", "aborted"}
    /\ hist' = [calls |-> hist.calls + 1,
                prev |-> [returned |-> ld.pc = "returned",
                          sample_num |-> ld.sample_num,
                          all_existed |-> \A r \in ResourceSet : ld.start.exists[r],
                          existed |-> {r \in ResourceSet : ld.start.exists[r]},
                          extracted |-> ld.extracted,
                          removed |-> Len(ld.deleted["train"]) + Len(ld.deleted["eval"]),
                          train_len |-> DatasetLen(ld.train_ds),
                          eval_len |-> DatasetLen(ld.eval_ds)]]
    /\ ld' = NoLoad
    /\ UNCHANGED fs
    /\ UNCHANGED dsVars

LoadNext ==
    \/ \E n \in 0..MaxSampleNum, f \in FlagChoices : Begin(n, f)
    \/ SubsampleSplit("train", "subsample_train", "subsample_eval")
    \/ SubsampleSplit("eval", "subsample_eval", "files")
    \/ SkipResource
    \/ FetchResource
    \/ DownloadFails
    \/ \E n \in 0..(ArchiveImages - 1) : ExtractFails(n)
    \/ ConstructDatasets
    \/ Finish

LoadSpec == LoadInit /\ [][LoadNext]_vars


\* ================================================================ claims
\* a dataset object exists
Constructed == pc \in {"idle", "loop", "done", "error"}

\* the caller passed a position of the dataset
ValidIntArg == arg.kind = "int" /\ arg.i \in 0..(DatasetLen(self) - 1)

\* a record carries every annotation kind the dataset requires, non-empty
SampleComplete(r) ==
    /\ self.include_bboxes => ("bbox" \in r.keys /\ Len(r.bbox) > 0)
    /\ self.include_masks => ("mask" \in r.keys /\ Len(r.mask) > 0)
    /\ ~self.captions.isNone => ("caption" \in r.keys /\ Len(r.caption) > 0)

\* position i is joined without error into a complete record
YieldsComplete(i) ==
    LET g == GetSingleItem(self, IntIndex(i))
    IN g.err = "none" /\ SampleComplete(g.h.resp)

\* the file name at position i parses as an integer
WellFormed(i) == IsInt(SplitextRoot(Basename(self.data[i + 1].image)))

\* C1: whenever __getitem__ returns for a valid integer index, the returned
\* sample is complete for the configured flags, and it is the record that
\* was fetched and checked last (for the index in fetched), whatever index
\* was drawn afterwards.
C1_ReturnedSampleComplete ==
    (pc = "done" /\ ValidIntArg) =>
        /\ SampleComplete(result)
        /\ result = response
        /\ fetched.kind = "int"
        /\ fetched.i + 1 \in DOMAIN self.data
        /\ result.image = self.data[fetched.i + 1].image

\* C1 witness: a complete sample with boxes and captions is returned after a
\* retry, and the index drawn after the check is another position
C1_Witness ==
    /\ pc = "done" /\ ValidIntArg
    /\ self.include_bboxes /\ ~self.captions.isNone
    /\ fetches = 2
    /\ fetched # arg
    /\ index # fetched

\* C2: for a known string key and every flag configuration, __getitem__
\* returns the base dataset's plain retrieval result: it raises nothing and
\* draws no random index.
C2_StringKeyReturnsBaseResult ==
    (arg.kind = "str" /\ arg.key = "image" /\ pc \in {"done", "error"}) =>
        /\ pc = "done"
        /\ result = BaseGetItem(self.data, arg).h.resp
        /\ ~drew

\* C4: on a non-empty dataset of well-formed file names in which no
\* position yields a complete sample, an access with a valid integer index
\* is in the resampling loop at every moment after it is entered: it has
\* neither returned nor raised.
C4_NoCompleteIndexLoopsForever ==
    (/\ pc \in {"loop", "done", "error"}
     /\ ValidIntArg
     /\ \A i \in 0..(DatasetLen(self) - 1) : WellFormed(i) /\ ~YieldsComplete(i))
        => pc = "loop"

\* C4 witness: such an access has gone round the loop at least twice
C4_Witness ==
    /\ pc = "loop" /\ ValidIntArg
    /\ self.include_bboxes
    /\ DatasetLen(self) = 2
    /\ \A i \in 0..(DatasetLen(self) - 1) : WellFormed(i) /\ ~YieldsComplete(i)
    /\ fetches = 2
    /\ fetched # arg

\* an access with a valid integer index runs on a dataset that has a
\* position yielding a complete sample
C5_Pre ==
    /\ pc = "loop" /\ ValidIntArg
    /\ \E i \in 0..(DatasetLen(self) - 1) : YieldsComplete(i)

\* C5 as stated: under a fair redraw such an access eventually returns.
C5_EventuallyReturns == C5_Pre ~> (pc = "done")

\* C5 amended: under a fair redraw such an access eventually returns, unless
\* it reaches an image whose file name stem is not an integer and ends with
\* the parse error; every index in use lies in [0, length), so no access
\* ends with an out-of-range error.
C5_ReturnsOrParseError ==
    /\ [](C5_Pre => (index.kind = "int" /\ index.i \in 0..(DatasetLen(self) - 1)))
    /\ C5_Pre ~> (\/ pc = "done"
                  \/ /\ pc = "error" /\ err = "ValueError"
                     /\ fetched.kind = "int"
                     /\ fetched.i + 1 \in DOMAIN self.data
                     /\ ~WellFormed(fetched.i))

\* C5 witness: the caller's image was incomplete and the access returned a
\* complete sample of another image
C5_Witness ==
    /\ pc = "done" /\ ValidIntArg
    /\ ~YieldsComplete(arg.i)
    /\ fetched # arg
    /\ SampleComplete(result)

\* C9: a construction with include_masks and without include_bboxes fails
\* with the assertion error and leaves no dataset object; every dataset
\* object that exists satisfies include_masks => include_bboxes.
C9_MasksImplyBboxes ==
    /\ [](Constructed => (self.include_masks => self.include_bboxes))
    /\ [](pc = "ctor_error" => (err = "AssertionError" /\ self = NoDataset))
    /\ [][\A c \in BOOLEAN : Construct(FALSE, TRUE, c) => pc' = "ctor_error"]_vars

\* C9 witness: a construction has failed on the flags
C9_Witness == pc = "ctor_error" /\ err = "AssertionError"

\* C10: integer-index accesses, retries included, leave the base dataset's
\* stored records and its length as the construction left them (one record
\* per file with the image key only); the sample under construction and the
\* one returned are objects the base dataset does not store.
C10_BaseDatasetUnchanged ==
    Constructed =>
        /\ self.data = DirDataset("train2017", image_dir)
        /\ response.ref = 0
        /\ result.ref = 0

\* C10 witness: an access returned an annotated sample after a retry
C10_Witness ==
    /\ pc = "done" /\ ValidIntArg
    /\ fetches = 2
    /\ {"image_id", "bbox", "caption"} \subseteq result.keys
    /\ Len(result.bbox) > 0

\* ------------------------------------------------------ load_data claims
\* the files directly in a directory: the images a dataset over it lists
TopCount(files) == Len(SelectSeq(files, LAMBDA f : ~f.sub))

\* the images of a split before the call subsamples: those of the directory
\* the call found, or of the archive when it found none
TotalBefore(r) ==
    IF ld.start.exists[r] THEN TopCount(ld.start.files[r]) ELSE Len(Archive(r))

ReturnedLen(r) == DatasetLen(IF r = "train" THEN ld.train_ds ELSE ld.eval_ds)

\* C3: when load_data returns, each dataset's length is the number of image
\* files in its split directory, and that number is min(sample_num, images
\* of the split before subsampling), whether the directory was there or not.
C3_LenIsMinOfSampleNum ==
    ld.pc = "returned" =>
        \A r \in Splits :
            /\ ReturnedLen(r) = TopCount(fs.files[r])
            /\ TopCount(fs.files[r]) = Min(ld.sample_num, TotalBefore(r))

\* data_subsample has run on split r of the directory the call found: the
\* first min(n, k) files in walk order are left, every later one is removed
SubsampledOk(r) ==
    LET before == ld.start.files[r]
        k == Len(before)
        m == Min(ld.sample_num, k)
    IN /\ Len(fs.files[r]) = m
       /\ fs.files[r] = SubSeq(before, 1, m)
       /\ ld.deleted[r] = SubSeq(before, m + 1, k)
       /\ ld.sample_num = 0 => fs.files[r] = << >>
       /\ ld.sample_num >= k => (ld.deleted[r] = << >> /\ fs.files[r] = before)

\* C6: data_subsample(dir, n) on a tree of k files leaves exactly the first
\* min(n, k) files in traversal order and removes every later one; n = 0
\* leaves none, n >= k removes none.
C6_SubsampleKeepsFirstN ==
    /\ ld.pc = "subsample_eval" => SubsampledOk("train")
    /\ (ld.pc = "files" /\ ld.k = 1) => (SubsampledOk("train") /\ SubsampledOk("eval"))

\* C6 witness: a directory of three files was cut down to one
C6_Witness ==
    /\ ld.pc = "subsample_eval"
    /\ ld.sample_num = 1
    /\ Len(ld.start.files["train"]) = 3
    /\ Len(ld.deleted["train"]) = 2
    /\ Len(fs.files["train"]) = 1

AllExisted == \A r \in ResourceSet : ld.start.exists[r]

\* C7: with the three directories present, a load_data call downloads and
\* extracts nothing; a second call with the same sample_num removes no file
\* and returns datasets of the same lengths as the first.
C7_SecondCallIdempotent ==
    /\ (ld.pc # "idle" /\ AllExisted) => (ld.downloaded = {} /\ ld.extracted = {})
    /\ (/\ ld.pc = "returned"
        /\ hist.prev.returned /\ hist.prev.all_existed
        /\ hist.prev.sample_num = ld.sample_num)
         => /\ \A r \in Splits : ld.deleted[r] = << >>
            /\ ReturnedLen("train") = hist.prev.train_len
            /\ ReturnedLen("eval") = hist.prev.eval_len

\* C7 witness: the first call removed files, the second returned
C7_Witness ==
    /\ ld.pc = "returned"
    /\ hist.prev.returned /\ hist.prev.all_existed
    /\ hist.prev.sample_num = ld.sample_num
    /\ hist.prev.removed >= 2
    /\ ReturnedLen("train") = 1

\* the resources the loop of lines 149-159 has passed
Passed ==
    IF ld.pc = "files" THEN {Resources[n] : n \in 1..(ld.k - 1)}
    ELSE IF ld.pc \in {"construct", "returned"} THEN ResourceSet
    ELSE {}

\* C8: a resource's archive is downloaded iff its directory and its archive
\* file are both absent, and extracted iff its directory is absent, whatever
\* the state of the other resources; nothing is done for a resource before
\* its pass, and no pass changes what another resource's pass finds.
C8_DownloadExtractPolicy ==
    ld.pc \in {"files", "construct", "returned"} =>
        \A r \in ResourceSet :
            IF r \in Passed
            THEN /\ r \in ld.downloaded <=> (~ld.start.exists[r] /\ ~ld.start.zip[r])
                 /\ r \in ld.extracted <=> ~ld.start.exists[r]
            ELSE /\ r \notin ld.downloaded \cup ld.extracted
                 /\ fs.exists[r] = ld.start.exists[r]
                 /\ fs.zip[r] = ld.start.zip[r]

\* C8 witness: one call skipped a resource, extracted one from the archive
\* on disk and downloaded and extracted the third
C8_Witness ==
    /\ ld.pc = "returned"
    /\ ld.start.exists["train"]
    /\ ld.downloaded = {"eval"}
    /\ ld.extracted = {"eval", "annotations"}

\* the resources after the one the loop of lines 149-159 is at
Later == {Resources[n] : n \in (ld.k + 1)..Len(Resources)}

\* C11: when a download or an extraction fails, load_data ends there: no
\* later resource is downloaded or extracted, no dataset is constructed or
\* returned, and the directories extracted earlier in the call stay on disk
\* in full, so that the next call finds them and skips them.
C11_FailureAbortsCall ==
    /\ ld.err \in {"DownloadError", "BadZipFile"} =>
          /\ ld.pc = "aborted"
          /\ ld.train_ds = NoDataset /\ ld.eval_ds = NoDataset
          /\ \A r \in Later :
                /\ r \notin ld.downloaded \cup ld.extracted
                /\ fs.exists[r] = ld.start.exists[r]
                /\ fs.zip[r] = ld.start.zip[r]
                /\ fs.files[r] = IF r \in Splits /\ ld.start.exists[r]
                                 THEN SubSeq(ld.start.files[r], 1,
                                             Min(ld.sample_num, Len(ld.start.files[r])))
                                 ELSE << >>
          /\ \A r \in ld.extracted : fs.exists[r] /\ fs.files[r] = Archive(r)
    /\ ld.pc # "idle" =>
          \A r \in hist.prev.extracted :
             /\ ld.start.exists[r]
             /\ r \notin ld.downloaded \cup ld.extracted

\* C11 witness: the train archive was extracted, the eval download failed
\* and the annotations were never tried
C11_Witness ==
    /\ ld.pc = "aborted" /\ ld.err = "DownloadError"
    /\ ld.k = 2
    /\ ld.extracted = {"train"}
    /\ ~fs.exists["annotations"] /\ ~fs.zip["annotations"]

\* C12 as stated: every constructed dataset has opened both annotation
\* files, each once, and holds an index of each.
C12_BothSourcesOpened ==
    Constructed =>
       /\ opened = <<"instances", "captions">>
       /\ ~self.instances.isNone
       /\ ~self.captions.isNone

\* C12, amended: a successful construction opens the instance file once
\* and the caption file once exactly when include_captions is set, leaving
\* None as the caption handle otherwise; no later step opens a file again
\* or replaces or clears either handle.
C12_HandlesSetOnce ==
    [][/\ \A b, m, c \in BOOLEAN :
             Construct(b, m, c) /\ pc' = "idle" =>
                /\ opened' = IF c THEN <<"instances", "captions">> ELSE <<"instances">>
                /\ self'.instances = COCO(annotation_file)
                /\ self'.captions = IF c THEN COCO(caption_file) ELSE None
       /\ Constructed =>
             /\ opened' = opened
             /\ self'.instances = self.instances
             /\ self'.captions = self.captions]_vars

\* C12 witness: a dataset built without captions has served an access and
\* still holds the instance index and no caption index
C12_Witness ==
    /\ pc = "done"
    /\ opened = <<"instances">>
    /\ self.instances = COCO(annotation_file)
    /\ self.captions = None
    /\ \E k \in AnnImageIds : annotation_file[k] # << >>

\* the pass of the loop just made fetched a stored image
FetchedImage ==
    /\ pc \in {"loop", "done", "error"}
    /\ fetches >= 1
    /\ fetched.kind = "int"
    /\ fetched.i + 1 \in DOMAIN self.data

\* C13: an integer access that fetches an image whose stem is no integer,
\* at the caller's index or at a redrawn one, ends with the parse error: the
\* image is not taken as incomplete, the loop does not go on, nothing is
\* returned.
C13_BadStemRaises ==
    /\ (FetchedImage /\ ~WellFormed(fetched.i)) => pc = "error" /\ err = "ValueError"
    /\ (pc = "error" /\ err = "ValueError" /\ FetchedImage) =>
          /\ ~WellFormed(fetched.i)
          /\ result = NoRec

\* C13 witness: the caller's image was incomplete and the redrawn one has
\* a stem that is no integer
C13_Witness ==
    /\ pc = "error" /\ err = "ValueError"
    /\ FetchedImage
    /\ fetched # arg
    /\ WellFormed(arg.i)
    /\ ~WellFormed(fetched.i)

\* an integer access has returned a sample
ReturnedSample == pc = "done" /\ arg.kind = "int" /\ FetchedImage

\* C14: the image_id of a sample returned by an integer access, after any
\* number of retries, is the integer parsed from the stem of the sample's own
\* image path, and that path is the path of the image fetched last.
C14_ImageIdFromOwnPath ==
    ReturnedSample =>
       /\ {"image", "image_id"} \subseteq result.keys
       /\ result.image = self.data[fetched.i + 1].image
       /\ IsInt(SplitextRoot(Basename(result.image)))
       /\ result.image_id = ParseInt(SplitextRoot(Basename(result.image)))

\* C14 witness: the sample of the second image, returned after a retry
C14_Witness ==
    /\ ReturnedSample
    /\ fetches = 2
    /\ fetched # arg
    /\ fetched.i = 1
    /\ result.image = Path("train2017", <<"0", "2">>)
    /\ result.image_id = 2

\* C15: the first fetch is made at the caller's index: when the image there
\* yields a complete sample the access returns that image's sample after
\* exactly one fetch, and a sample of another image is returned only when
\* the caller's image was incomplete.
C15_FirstFetchAtCallerIndex ==
    /\ (pc \in {"loop", "done", "error"} /\ ValidIntArg /\ YieldsComplete(arg.i)) =>
          /\ pc # "error"
          /\ pc = "loop" => fetches = 0 /\ index = arg
          /\ pc = "done" =>
                /\ fetches = 1
                /\ fetched = arg
                /\ result.image = self.data[arg.i + 1].image
    /\ (ReturnedSample /\ ValidIntArg /\ result.image # self.data[arg.i + 1].image) =>
          ~YieldsComplete(arg.i)
    /\ (pc \in {"loop", "done", "error"} /\ ValidIntArg /\ fetches = 1) => fetched = arg

\* C15 witness: the second image is complete and dataset[1] returned it
\* after one fetch
C15_Witness ==
    /\ ReturnedSample
    /\ arg = IntIndex(1)
    /\ fetches = 1
    /\ fetched = arg
    /\ result.image = self.data[2].image
    /\ YieldsComplete(0)

\* the latest pass of an integer access joined a record
Joined == FetchedImage /\ arg.kind = "int" /\ "image_id" \in response.keys

\* the instance annotations of an image in the annotation file, in source
\* order, without the crowd ones
NonCrowd(image_id) ==
    IF image_id \in DOMAIN annotation_file
    THEN SelectSeq(annotation_file[image_id], LAMBDA a : a.iscrowd = 0)
    ELSE << >>

\* C16: with masks requested the mask list of a joined record is as long
\* as its bbox list and entry k of both comes from the same annotation, so
\* the mask list is empty exactly when the bbox list is and the mask part of
\* the completeness check never fails alone.
C16_MasksParallelBboxes ==
    (Joined /\ self.include_masks) =>
       /\ {"bbox", "mask"} \subseteq response.keys
       /\ Len(response.mask) = Len(response.bbox)
       /\ \A k \in 1..Len(response.mask) :
             \E a \in Range(annotation_file[response.image_id]) :
                /\ response.bbox[k] = <<a.bbox[1], a.bbox[2], a.bbox[3], a.bbox[4],
                                        a.category_id>>
                /\ response.mask[k] = [maskOf |-> a.id]
       /\ (response.mask = << >>) <=> (response.bbox = << >>)
       /\ (Len(response.mask) > 0) = (Len(response.bbox) > 0)

\* C16 witness: a record returned with two boxes and their two masks
C16_Witness ==
    /\ Joined /\ self.include_masks
    /\ pc = "done"
    /\ Len(result.bbox) = 2
    /\ Len(result.mask) = 2
    /\ result.mask[1] # result.mask[2]

\* C17: with bboxes requested the bbox list of a joined record holds, in
\* source order, one (x, y, w, h, category_id) tuple for each instance
\* annotation of its image_id that is not a crowd, and nothing else; an
\* image whose annotations are all crowds is incomplete and redrawn.
C17_BboxesAreNonCrowd ==
    (Joined /\ self.include_bboxes) =>
       /\ "bbox" \in response.keys
       /\ Len(response.bbox) = Len(NonCrowd(response.image_id))
       /\ \A k \in 1..Len(response.bbox) :
             LET a == NonCrowd(response.image_id)[k]
             IN response.bbox[k] = <<a.bbox[1], a.bbox[2], a.bbox[3], a.bbox[4],
                                     a.category_id>>
       /\ NonCrowd(response.image_id) = << >> =>
             /\ pc # "done"
             /\ pc = "loop" => drew /\ result = NoRec

\* C17 witness: the image fetched has a crowd annotation only, and the
\* loop goes on with a redrawn index
C17_Witness ==
    /\ Joined /\ self.include_bboxes
    /\ pc = "loop"
    /\ annotation_file[response.image_id] # << >>
    /\ \A a \in Range(annotation_file[response.image_id]) : a.iscrowd = 1
    /\ response.bbox = << >>

\* C18: in one call both split directories are subsampled before any
\* existence check, download or extraction: while they are subsampled
\* nothing has been fetched, a split directory that was absent when the call
\* began has no file deleted in the call and holds the whole extracted
\* archive afterwards, and files are deleted only from a directory that
\* existed before the call.
C18_SubsampleBeforeFetch ==
    /\ ld.pc \in {"subsample_train", "subsample_eval"} =>
          /\ ld.k = 1
          /\ ld.downloaded = {} /\ ld.extracted = {}
          /\ fs.exists = ld.start.exists
          /\ fs.zip = ld.start.zip
    /\ ld.pc # "idle" =>
          \A r \in Splits :
             /\ ~ld.start.exists[r] => ld.deleted[r] = << >>
             /\ ld.deleted[r] # << >> => ld.start.exists[r] /\ r \notin ld.extracted
             /\ r \in ld.extracted =>
                   /\ ~ld.start.exists[r]
                   /\ fs.files[r] = Archive(r)
             /\ (ld.pc = "returned" /\ ~ld.start.exists[r]) =>
                   /\ r \in ld.extracted
                   /\ ReturnedLen(r) = Len(Archive(r))

\* C18 witness: a call with sample_num 1 pruned the eval directory it found
\* and left the train directory it extracted with the two files of the archive
C18_Witness ==
    /\ ld.pc = "returned"
    /\ ld.sample_num = 1
    /\ ~ld.start.exists["train"]
    /\ ld.deleted["train"] = << >>
    /\ Len(fs.files["train"]) = ArchiveImages
    /\ Len(fs.files["train"]) > ld.sample_num
    /\ ld.start.exists["eval"]
    /\ ld.deleted["eval"] # << >>

\* the number of files in the directory of split r, sub-directories included
FileCount(root, r) == Len(root.files[r])

\* C19: a split directory that exists stays and never gains a file, in any
\* step of any call; and when a call with sample_num a found the directory,
\* every later step leaves at most a files in it, so that the next call
\* returns a dataset of at most a images whatever its own sample_num is.
C19_SubsampleMonotone ==
    [][\A r \in Splits :
          /\ fs.exists[r] => fs'.exists[r] /\ FileCount(fs', r) <= FileCount(fs, r)
          /\ (hist'.calls >= 1 /\ r \in hist'.prev.existed) =>
                /\ fs'.exists[r]
                /\ FileCount(fs', r) <= hist'.prev.sample_num
                /\ ld'.pc = "returned" => ReturnedLen(r)' <= hist'.prev.sample_num]_vars

\* C19 witness: a call with sample_num 1 pruned the train directory, and
\* the next call, with sample_num 3, returns a train dataset of one image
C19_Witness ==
    /\ ld.pc = "returned"
    /\ hist.calls = 1
    /\ "train" \in hist.prev.existed
    /\ hist.prev.sample_num = 1
    /\ hist.prev.removed >= 1
    /\ ld.sample_num = MaxSampleNum
    /\ ld.sample_num > hist.prev.sample_num
    /\ ReturnedLen("train") = 1

====
